---- MODULE Spec2Model ----
(***************************************************************************)
(* deb_pkg_tools.utils.atomic_lock: a cross-process lock whose only shared *)
(* state is a marker directory created with os.makedirs and removed with   *)
(* os.rmdir.  Each process runs                                            *)
(*                                                                         *)
(*     with atomic_lock(pathname, wait):                                   *)
(*         <protected section>                                             *)
(*                                                                         *)
(* and every system call of __init__, __enter__ and __exit__ is one step.  *)
(***************************************************************************)
EXTENDS Integers, Sequences, FiniteSets, TLC

(* Number of processes that use atomic_lock. *)
NumProcs == 3

Procs == 1..NumProcs

(***************************************************************************)
(* The filesystem the processes share, apart from the marker directories.  *)
(* A path is the sequence of its components below the root.                *)
(***************************************************************************)

(* The directories and symbolic links that exist below the root. *)
Files == { <<"repo">>, <<"link">>, <<"tmp">> }

(* /link is a symbolic link to /repo. *)
Symlinks == [ p \in { <<"link">> } |-> <<"repo">> ]

(* The pathnames callers pass to atomic_lock(): /repo, another spelling of *)
(* it through the link, /link/., and /missing, which does not exist.       *)
Pathnames == { <<"repo">>, <<"link", ".">>, <<"missing">> }

(* os.path.islink() *)
islink(path) == path \in DOMAIN Symlinks

(* posixpath.realpath(): components are taken left to right; "." is        *)
(* dropped, ".." drops the last resolved component, a component that is a  *)
(* symbolic link is replaced by its resolved target, and any other         *)
(* component, existing or not, is appended.  It never fails.               *)
RECURSIVE joinrealpath(_, _)
joinrealpath(path, rest) ==
  IF rest = << >> THEN path
  ELSE LET name == Head(rest)
           newpath == Append(path, name)
       IN  IF name = "." THEN joinrealpath(path, Tail(rest))
           ELSE IF name = ".."
             THEN joinrealpath(IF path = << >> THEN path
                               ELSE SubSeq(path, 1, Len(path) - 1), Tail(rest))
           ELSE IF islink(newpath)
             THEN joinrealpath(joinrealpath(<< >>, Symlinks[newpath]), Tail(rest))
           ELSE joinrealpath(newpath, Tail(rest))

(* The value realpath() has when it raises instead of returning. *)
ResolveError == << "", "ENOENT" >>

(* os.path.exists(): the path leads to a file. *)
exists(pathname) == joinrealpath(<< >>, pathname) \in Files \cup { << >> }

(* A realpath() that insists on the path existing. *)
realpath_strict(pathname) ==
  IF exists(pathname) THEN joinrealpath(<< >>, pathname) ELSE ResolveError

(* A realpath() that only normalises "." and does not follow links. *)
realpath_nolinks(pathname) == SelectSeq(pathname, LAMBDA name : name # ".")

realpath(pathname) == joinrealpath(<< >>, pathname)

(* The text of an absolute path. *)
RECURSIVE pathtext(_)
pathtext(path) ==
  IF path = << >> THEN "/"
  ELSE IF Len(path) = 1 THEN "/" \o path[1]
  ELSE pathtext(SubSeq(path, 1, Len(path) - 1)) \o "/" \o path[Len(path)]

(* hashlib.sha1(text.encode('utf-8')).hexdigest() on the texts that occur. *)
Sha1Digests ==
  [ t \in { "/repo", "/missing", "/link", "/" } |->
      CASE t = "/repo"    -> "83630750896a66f949c084b8d0e97c1f692b3608"
        [] t = "/missing" -> "eec6c062c9fd7d28aabf0264239efc597815cb74"
        [] t = "/link"    -> "e65f3adfaa9fec94abacfebef79272afb73016c6"
        [] t = "/"        -> "42099b4af021e53fd8fd4e056c2568d7c2e3ffa8" ]

sha1(text) == Sha1Digests[text]

(* tempfile.gettempdir() *)
gettempdir == "/tmp"

(* A marker name that leaves the fingerprint out. *)
lock_directory_nohash(pathname) == gettempdir \o "/" \o ".lock"

(* os.path.join(tempfile.gettempdir(), '%s.lock' % sha1(self.pathname)) *)
lock_directory_of(pathname) ==
  gettempdir \o "/" \o sha1(pathtext(pathname)) \o ".lock"

NoHandle == [ wait |-> FALSE, pathname |-> << >>, lock_directory |-> "" ]

VARIABLES
  pc,        \* where each process is: "init", "enter", "sleep", "body",
             \* "exit", "rmdir", "done"; "stopped" when it died in its
             \* body; "nested_enter", "nested_sleep", "nested_body" in a
             \* second __enter__ made from the body
  arg,       \* history: the pathname a process passed to atomic_lock()
  self,      \* each process's handle: wait, pathname, lock_directory
  raised,    \* the exception each process has pending or ended with
  dirs,      \* the marker directories that exist
  creator,   \* history: the process whose makedirs made each marker
  order,     \* history: the processes that found the marker present
             \* and slept, in the order they began to wait, each until
             \* it asks for the lock anew
  a, b,      \* two OrderedObject instances: class and _key()
  cmp        \* what comparing a with b gave: a < b, a == b, b < a

vars == << pc, arg, self, raised, dirs, creator, order, a, b, cmp >>

(* What the locking steps leave alone. *)
objects == << a, b, cmp >>

NoObject == [ class |-> "OrderedObject", key |-> 0 ]

NotCompared == [ lt |-> FALSE, eq |-> FALSE, gt |-> FALSE, done |-> FALSE ]

NoException == "none"

Init ==
  /\ pc = [ p \in Procs |-> "init" ]
  /\ arg = [ p \in Procs |-> << >> ]
  /\ self = [ p \in Procs |-> NoHandle ]
  /\ raised = [ p \in Procs |-> NoException ]
  /\ dirs = { }
  /\ creator = << >>
  /\ order = << >>
  /\ a = NoObject /\ b = NoObject /\ cmp = NotCompared

(* atomic_lock.__init__(self, pathname, wait) in process p; an exception   *)
(* of realpath() ends the process.                                         *)
init(p, pathname, wait) ==
  /\ pc[p] = "init"
  /\ LET resolved == realpath(pathname) IN
       IF resolved = ResolveError
         THEN /\ raised' = [ raised EXCEPT ![p] = "ResolveError" ]
              /\ pc' = [ pc EXCEPT ![p] = "done" ]
              /\ UNCHANGED self
         ELSE /\ self' = [ self EXCEPT ![p] =
                    [ wait |-> wait, pathname |-> resolved,
                      lock_directory |-> lock_directory_of(resolved) ] ]
              /\ pc' = [ pc EXCEPT ![p] = "enter" ]
              /\ UNCHANGED raised
  /\ UNCHANGED << dirs, creator, order, objects >>

(* A process constructs its handle. *)
Construct(p) ==
  /\ \E pathname \in Pathnames, wait \in BOOLEAN : init(p, pathname, wait)
  /\ UNCHANGED arg

(* A process constructs its handle and the pathname it passed is kept. *)
ConstructFrom(p) ==
  \E pathname \in Pathnames, wait \in BOOLEAN :
    /\ init(p, pathname, wait)
    /\ arg' = [ arg EXCEPT ![p] = pathname ]

(* A makedirs() that reports success whether or not the directory existed. *)
makedirs_blind(directory, existing) == TRUE

(* makedirs(): True when this call created the directory, False when it    *)
(* already exists (EEXIST).                                                *)
makedirs(directory, existing) == directory \notin existing

(* An __enter__ that waits whatever the wait flag says. *)
enter_always_waits(created, wait) ==
  IF created THEN "body" ELSE "sleep"

(* An __enter__ that reads the wait flag the wrong way round. *)
enter_wait_inverted(created, wait) ==
  IF created THEN "body" ELSE IF wait THEN "raise" ELSE "sleep"

(* Where __enter__ goes after one makedirs(): return, sleep, or raise. *)
enter_outcome(created, wait) ==
  IF created THEN "body" ELSE IF wait THEN "sleep" ELSE "raise"

(* atomic_lock.__enter__: one turn of the loop up to return, sleep or raise *)
enter_turn(p) ==
  /\ pc[p] = "enter"
  /\ LET d == self[p].lock_directory
         created == makedirs(d, dirs)
         outcome == enter_outcome(created, self[p].wait)
     IN  /\ dirs' = dirs \cup { d }
         /\ creator' = IF d \in dirs THEN creator
                       ELSE [ x \in dirs \cup { d } |->
                                IF x = d THEN p ELSE creator[x] ]
         /\ IF outcome = "raise"
              THEN /\ raised' = [ raised EXCEPT ![p] = "ResourceLockedException" ]
                   /\ pc' = [ pc EXCEPT ![p] = "done" ]
              ELSE /\ pc' = [ pc EXCEPT ![p] = outcome ]
                   /\ UNCHANGED raised
  /\ UNCHANGED << arg, self, objects >>

(* A process runs one turn of the loop of __enter__. *)
Enter(p) == enter_turn(p) /\ UNCHANGED order

(* time.sleep(0.1) in __enter__, then the next turn of the loop *)
Sleep(p) ==
  /\ pc[p] = "sleep"
  /\ pc' = [ pc EXCEPT ![p] = "enter" ]
  /\ UNCHANGED << arg, self, raised, dirs, creator, order, objects >>

(* The protected section ends normally. *)
BodyReturn(p) ==
  /\ pc[p] = "body"
  /\ pc' = [ pc EXCEPT ![p] = "exit" ]
  /\ UNCHANGED << arg, self, raised, dirs, creator, order, objects >>

(* The protected section ends by raising. *)
BodyRaise(p) ==
  /\ pc[p] = "body"
  /\ pc' = [ pc EXCEPT ![p] = "exit" ]
  /\ raised' = [ raised EXCEPT ![p] = "BodyError" ]
  /\ UNCHANGED << arg, self, dirs, creator, order, objects >>

(* An __exit__ that skips the removal when the body raised. *)
exit_skips_on_error(isdir, exc) ==
  IF isdir /\ exc = NoException THEN "rmdir" ELSE "done"

(* Where __exit__ goes after os.path.isdir(): to os.rmdir or to its end. *)
exit_outcome(isdir, exc) == IF isdir THEN "rmdir" ELSE "done"

(* atomic_lock.__exit__: os.path.isdir(self.lock_directory) *)
ExitIsdir(p) ==
  /\ pc[p] = "exit"
  /\ pc' = [ pc EXCEPT ![p] =
               exit_outcome(self[p].lock_directory \in dirs, raised[p]) ]
  /\ UNCHANGED << arg, self, raised, dirs, creator, order, objects >>

(* An os.rmdir() that leaves the directory in place. *)
rmdir_keeps(directory, existing) == existing

(* os.rmdir() on a directory that exists. *)
rmdir(directory, existing) == existing \ { directory }

(* atomic_lock.__exit__: os.rmdir(self.lock_directory), which raises when  *)
(* the directory is no longer there.                                       *)
ExitRmdir(p) ==
  /\ pc[p] = "rmdir"
  /\ LET d == self[p].lock_directory IN
       IF d \in dirs
         THEN /\ dirs' = rmdir(d, dirs)
              /\ creator' = [ x \in rmdir(d, dirs) |-> creator[x] ]
              /\ UNCHANGED raised
         ELSE /\ raised' = [ raised EXCEPT ![p] = "OSError" ]
              /\ UNCHANGED << dirs, creator >>
  /\ pc' = [ pc EXCEPT ![p] = "done" ]
  /\ UNCHANGED << arg, self, order, objects >>

(* Something other than atomic_lock removes a marker directory. *)
ExternalRmdir ==
  /\ \E d \in dirs :
       /\ dirs' = dirs \ { d }
       /\ creator' = [ x \in dirs \ { d } |-> creator[x] ]
  /\ UNCHANGED << pc, arg, self, raised, order, objects >>

Next ==
  \/ \E p \in Procs : Construct(p)
  \/ \E p \in Procs : Enter(p)
  \/ \E p \in Procs : Sleep(p)
  \/ \E p \in Procs : BodyReturn(p)
  \/ \E p \in Procs : BodyRaise(p)
  \/ \E p \in Procs : ExitIsdir(p)
  \/ \E p \in Procs : ExitRmdir(p)

(* Processes that use the lock only through the with statement. *)
Spec == Init /\ [][Next]_vars

(* Two processes whose handles are constructed independently. *)
Pair == { 1, 2 }

NextPair ==
  \/ \E p \in Pair : ConstructFrom(p)
  \/ \E p \in Pair : Enter(p)
  \/ \E p \in Pair : Sleep(p)
  \/ \E p \in Pair : BodyReturn(p)
  \/ \E p \in Pair : BodyRaise(p)
  \/ \E p \in Pair : ExitIsdir(p)
  \/ \E p \in Pair : ExitRmdir(p)

(* Two processes that use the lock through the with statement, with the    *)
(* pathname each one passed on record.                                     *)
SpecPair == Init /\ [][NextPair]_vars

NextEnv == Next \/ ExternalRmdir

(* The same processes, and marker directories removed out-of-band. *)
SpecEnv == Init /\ [][NextEnv]_vars

(* The errors os.makedirs() can fail with besides EEXIST. *)
OtherErrnos == { "EACCES", "EIO", "ENAMETOOLONG" }

(* A makedirs() whose except clause takes every OSError for EEXIST. *)
makedirs_swallows(errno) == "False"

(* The except clause of makedirs(): EEXIST is answered with False, any     *)
(* other OSError is raised again.                                          *)
makedirs_except(errno) == IF errno = "EEXIST" THEN "False" ELSE "raise"

(* atomic_lock.__enter__: a turn of the loop in which os.makedirs() fails  *)
(* with an error other than EEXIST; __enter__ has no handler for it.       *)
EnterError(p) ==
  /\ pc[p] = "enter"
  /\ \E errno \in OtherErrnos :
       IF makedirs_except(errno) = "raise"
         THEN /\ raised' = [ raised EXCEPT ![p] = "OSError" ]
              /\ pc' = [ pc EXCEPT ![p] = "done" ]
         ELSE IF enter_outcome(FALSE, self[p].wait) = "raise"
           THEN /\ raised' = [ raised EXCEPT ![p] = "ResourceLockedException" ]
                /\ pc' = [ pc EXCEPT ![p] = "done" ]
           ELSE /\ pc' = [ pc EXCEPT ![p] = enter_outcome(FALSE, self[p].wait) ]
                /\ UNCHANGED raised
  /\ UNCHANGED << arg, self, dirs, creator, order, objects >>

NextFault == Next \/ \E p \in Procs : EnterError(p)

(* Scoped use on a filesystem where creating the marker can fail. *)
SpecFault == Init /\ [][NextFault]_vars

(* A process constructs its handle for /repo, the one target path of the   *)
(* specifications below.                                                   *)
ConstructSame(p) ==
  /\ \E wait \in BOOLEAN : init(p, <<"repo">>, wait)
  /\ UNCHANGED arg

(* atomic_lock.__exit__() called on a handle whose __enter__ was not run:  *)
(* the method is public and all its parameters have defaults.              *)
CallExit(p) ==
  /\ pc[p] = "enter"
  /\ pc' = [ pc EXCEPT ![p] = "exit" ]
  /\ UNCHANGED << arg, self, raised, dirs, creator, order, objects >>

NextUnscoped ==
  \/ \E p \in Procs : ConstructSame(p)
  \/ \E p \in Procs : Enter(p)
  \/ \E p \in Procs : Sleep(p)
  \/ \E p \in Procs : BodyReturn(p)
  \/ \E p \in Procs : BodyRaise(p)
  \/ \E p \in Procs : ExitIsdir(p)
  \/ \E p \in Procs : ExitRmdir(p)
  \/ \E p \in Procs : CallExit(p)

(* Processes that lock one path and may call __exit__ without __enter__. *)
SpecUnscoped == Init /\ [][NextUnscoped]_vars

(* A process in its protected section ends without running __exit__: it    *)
(* is killed, or the machine goes down.                                    *)
Stop(p) ==
  /\ pc[p] = "body"
  /\ pc' = [ pc EXCEPT ![p] = "stopped" ]
  /\ UNCHANGED << arg, self, raised, dirs, creator, order, objects >>

NextStop ==
  \/ \E p \in Procs : ConstructSame(p)
  \/ \E p \in Procs : Enter(p)
  \/ \E p \in Procs : Sleep(p)
  \/ \E p \in Procs : BodyReturn(p)
  \/ \E p \in Procs : BodyRaise(p)
  \/ \E p \in Procs : ExitIsdir(p)
  \/ \E p \in Procs : ExitRmdir(p)
  \/ \E p \in Procs : Stop(p)

(* Scoped use of one path by processes that can die while holding. *)
SpecStop == Init /\ [][NextStop]_vars

(* A process in its protected section enters a second with statement on    *)
(* the same path, through the same or a fresh handle: one turn of the loop *)
(* of that __enter__.  The first turn fixes the second handle's wait flag; *)
(* only a blocking one gets to further turns.  A ResourceLockedException   *)
(* raised by it is a failure of the outer protected section.               *)
NestedEnter(p) ==
  /\ pc[p] \in { "body", "nested_enter" }
  /\ \E wait \in IF pc[p] = "body" THEN BOOLEAN ELSE { TRUE } :
       LET d == self[p].lock_directory
           created == makedirs(d, dirs)
           outcome == enter_outcome(created, wait)
       IN  /\ dirs' = dirs \cup { d }
           /\ creator' = IF d \in dirs THEN creator
                         ELSE [ x \in dirs \cup { d } |->
                                  IF x = d THEN p ELSE creator[x] ]
           /\ IF outcome = "raise"
                THEN /\ raised' = [ raised EXCEPT ![p] =
                                      "ResourceLockedException" ]
                     /\ pc' = [ pc EXCEPT ![p] = "exit" ]
                ELSE /\ pc' = [ pc EXCEPT ![p] = "nested_" \o outcome ]
                     /\ UNCHANGED raised
  /\ UNCHANGED << arg, self, order, objects >>

(* time.sleep(0.1) in the second __enter__, then its next turn *)
NestedSleep(p) ==
  /\ pc[p] = "nested_sleep"
  /\ pc' = [ pc EXCEPT ![p] = "nested_enter" ]
  /\ UNCHANGED << arg, self, raised, dirs, creator, order, objects >>

NextNested ==
  \/ \E p \in Procs : ConstructSame(p)
  \/ \E p \in Procs : Enter(p)
  \/ \E p \in Procs : Sleep(p)
  \/ \E p \in Procs : BodyReturn(p)
  \/ \E p \in Procs : BodyRaise(p)
  \/ \E p \in Procs : ExitIsdir(p)
  \/ \E p \in Procs : ExitRmdir(p)
  \/ \E p \in Procs : NestedEnter(p)
  \/ \E p \in Procs : NestedSleep(p)

(* Scoped use of one path by processes that may acquire again while they   *)
(* hold.                                                                   *)
SpecNested == Init /\ [][NextNested]_vars

(***************************************************************************)
(* Processes that take the lock again and again, each time through a fresh *)
(* handle on the same file.                                                *)
(***************************************************************************)

(* The members of order without q. *)
Without(q) == SelectSeq(order, LAMBDA x : x # q)

(* Whether p is in order. *)
Waited(p) == \E i \in 1..Len(order) : order[i] = p

(* A process that is done with one `with atomic_lock(...)` begins another. *)
Restart(p) ==
  /\ pc[p] = "done"
  /\ pc' = [ pc EXCEPT ![p] = "init" ]
  /\ self' = [ self EXCEPT ![p] = NoHandle ]
  /\ raised' = [ raised EXCEPT ![p] = NoException ]
  /\ order' = Without(p)
  /\ UNCHANGED << arg, dirs, creator, objects >>

NextAgain ==
  \/ \E p \in Procs : ConstructSame(p)
  \/ \E p \in Procs : Enter(p)
  \/ \E p \in Procs : Sleep(p)
  \/ \E p \in Procs : BodyReturn(p)
  \/ \E p \in Procs : BodyRaise(p)
  \/ \E p \in Procs : ExitIsdir(p)
  \/ \E p \in Procs : ExitRmdir(p)
  \/ \E p \in Procs : Restart(p)

(* The steps of p from the call of __enter__ to the end of __exit__: the   *)
(* poll and the sleep of the loop, the end of the body, the test and the   *)
(* rmdir of __exit__.  At most one of them is possible at a time.          *)
Run(p) ==
  \/ Enter(p)
  \/ Sleep(p)
  \/ BodyReturn(p) \/ BodyRaise(p)
  \/ ExitIsdir(p)
  \/ ExitRmdir(p)

(* Once a process is in __enter__ it keeps running to the end of __exit__. *)
(* Nothing makes a process ask for the lock, the first time or again.      *)
Fair == \A p \in Procs : WF_vars(Run(p))

SpecAgain == Init /\ [][NextAgain]_vars /\ Fair

(***************************************************************************)
(* The same processes with the order in which they began to wait kept as   *)
(* history.  __enter__ never reads that order.                             *)
(***************************************************************************)

(* An __enter__ that polls only when no process waits or when p is the one *)
(* that has waited longest: a queue of waiters.                            *)
EnterByTicket(p) ==
  /\ Len(order) > 0 => Head(order) = p
  /\ enter_turn(p)
  /\ order' = IF pc'[p] = "sleep" /\ ~Waited(p) THEN Append(order, p)
                                                 ELSE order

(* __enter__ in a process whose first sleep is recorded in order. *)
EnterInOrder(p) ==
  /\ enter_turn(p)
  /\ order' = IF pc'[p] = "sleep" /\ ~Waited(p) THEN Append(order, p)
                                                 ELSE order

NextLoop ==
  \/ \E p \in Procs : ConstructSame(p)
  \/ \E p \in Procs : EnterInOrder(p)
  \/ \E p \in Procs : Sleep(p)
  \/ \E p \in Procs : BodyReturn(p)
  \/ \E p \in Procs : BodyRaise(p)
  \/ \E p \in Procs : ExitIsdir(p)
  \/ \E p \in Procs : ExitRmdir(p)
  \/ \E p \in Procs : Restart(p)

RunInOrder(p) ==
  \/ EnterInOrder(p)
  \/ Sleep(p)
  \/ BodyReturn(p) \/ BodyRaise(p)
  \/ ExitIsdir(p)
  \/ ExitRmdir(p)

FairLoop == \A p \in Procs : WF_vars(RunInOrder(p))

SpecLoop == Init /\ [][NextLoop]_vars /\ FairLoop

(***************************************************************************)
(* OrderedObject: equality and ordering of two instances, derived from     *)
(* what their _key() returns.  The keys are integers, which Python orders  *)
(* totally.                                                                *)
(***************************************************************************)

MaxKey == 3

(* Classes that inherit from OrderedObject and implement _key(). *)
Subclasses == { "A", "B" }

Objects == [ class : Subclasses, key : 0..MaxKey ]

(* type(x) *)
type(x) == x.class

(* isinstance(x, OrderedObject) *)
isinstance(x) == type(x) \in Subclasses \cup { "OrderedObject" }

(* x._key() *)
_key(x) == x.key

(* OrderedObject.__eq__(x, y) *)
__eq__(x, y) == type(x) = type(y) /\ _key(x) = _key(y)

(* OrderedObject.__lt__(x, y) *)
__lt__(x, y) == isinstance(y) /\ _key(x) < _key(y)

InitOrdered ==
  /\ pc = [ p \in Procs |-> "init" ]
  /\ arg = [ p \in Procs |-> << >> ]
  /\ self = [ p \in Procs |-> NoHandle ]
  /\ raised = [ p \in Procs |-> NoException ]
  /\ dirs = { }
  /\ creator = << >>
  /\ order = << >>
  /\ a \in Objects /\ b \in Objects
  /\ cmp = NotCompared

(* The program evaluates a < b, a == b and b < a. *)
Compare ==
  /\ ~cmp.done
  /\ cmp' = [ lt |-> __lt__(a, b), eq |-> __eq__(a, b),
              gt |-> __lt__(b, a), done |-> TRUE ]
  /\ UNCHANGED << pc, arg, self, raised, dirs, creator, order, a, b >>

NextOrdered == Compare

SpecOrdered == InitOrdered /\ [][NextOrdered]_vars

(***************************************************************************)
(* Vocabulary of the properties.                                           *)
(***************************************************************************)

(* The file each pathname of the model names, written down by hand. *)
Denotes ==
  [ s \in Pathnames |->
      CASE s = <<"repo">>      -> "the repository"
        [] s = <<"link", ".">> -> "the repository"
        [] s = <<"missing">>   -> "nothing, at /missing" ]

(* p has a handle. *)
Constructed(p) == pc[p] # "init" /\ self[p] # NoHandle

(* p passed a pathname. *)
Named(p) == pc[p] # "init" /\ arg[p] \in Pathnames

(* p and q passed pathnames of the same file. *)
SameTarget(p, q) == Named(p) /\ Named(q) /\ Denotes[arg[p]] = Denotes[arg[q]]

(* The handles of p and q have the same canonical target path. *)
SamePath(p, q) ==
  Constructed(p) /\ Constructed(q) /\ self[p].pathname = self[q].pathname

(* p is in its protected section. *)
InBody(p) == pc[p] = "body"

(* p is between the return of its __enter__ and the end of its __exit__. *)
Holding(p) == pc[p] \in { "body", "exit", "rmdir" }

(* p's __enter__ returned at some time. *)
Succeeded(p) ==
  Holding(p) \/ (pc[p] = "done" /\ raised[p] \in { NoException, "BodyError" })

(* p's __exit__ has run to its end. *)
Released(p) == pc[p] = "done" /\ Succeeded(p)

(* p's __enter__ raised ResourceLockedException. *)
Contended(p) == pc[p] = "done" /\ raised[p] = "ResourceLockedException"

(* The marker directories that exist or that some handle names. *)
LockDirs ==
  dirs \cup { self[p].lock_directory : p \in { q \in Procs : Constructed(q) } }

(* The processes with a handle for marker d. *)
Group(d) == { p \in Procs : Constructed(p) /\ self[p].lock_directory = d }

(* This step is p's makedirs() creating its marker and __enter__ returning. *)
Acquires(p) ==
  /\ pc[p] = "enter" /\ pc'[p] = "body"
  /\ self[p].lock_directory \notin dirs
  /\ dirs' = dirs \cup { self[p].lock_directory }
  /\ creator'[self[p].lock_directory] = p

(* This step is p's os.rmdir() removing its marker. *)
Releases(p) ==
  /\ pc[p] = "rmdir" /\ pc'[p] = "done"
  /\ self[p].lock_directory \in dirs
  /\ dirs' = dirs \ { self[p].lock_directory }

(***************************************************************************)
(* C1: mutual exclusion.  Of the processes that lock the same canonical    *)
(* path through the with statement, blocking or not, at most one is        *)
(* between the return of __enter__ and the end of __exit__, so at most one *)
(* is in its protected section.                                            *)
(***************************************************************************)
C1_MutualExclusion ==
  \A p, q \in Procs :
    (p # q /\ SamePath(p, q)) => ~(Holding(p) /\ Holding(q))

(* One process is in its protected section, a non-blocking one was turned  *)
(* away and a blocking one is waiting, all for the same path.              *)
C1_Witness ==
  \E p, q, r \in Procs :
    /\ SamePath(p, q) /\ SamePath(p, r)
    /\ InBody(p) /\ Contended(q) /\ pc[r] = "sleep"

(***************************************************************************)
(* C2 as stated: when every caller of a marker is non-blocking and all N   *)
(* (N >= 2) have made their attempt, exactly one has succeeded and all the *)
(* others raised ResourceLockedException.                                  *)
(***************************************************************************)
C2_ExactlyOneEver ==
  \A d \in LockDirs :
    ( /\ Group(d) = Procs
      /\ \A p \in Procs : ~self[p].wait /\ pc[p] \notin { "init", "enter" } )
    => /\ Cardinality({ p \in Procs : Succeeded(p) }) = 1
       /\ \A p \in Procs : ~Succeeded(p) => Contended(p)

(***************************************************************************)
(* C2 as amended: among non-blocking callers of one marker, every attempt  *)
(* either succeeded or raised ResourceLockedException, at least one        *)
(* succeeded, at most one holds the lock at a time, and as long as no      *)
(* winner has released exactly one of the attempts made has succeeded.     *)
(***************************************************************************)
C2_OneWinnerUntilRelease ==
  \A d \in LockDirs :
    (\A p \in Group(d) : ~self[p].wait) =>
      LET tried == { p \in Group(d) : pc[p] # "enter" }
          won == { p \in tried : Succeeded(p) }
      IN  /\ \A p \in tried \ won : Contended(p)
          /\ tried # { } => won # { }
          /\ Cardinality({ p \in won : Holding(p) }) <= 1
          /\ (\A p \in won : ~Released(p)) => Cardinality(won) <= 1

(* Every process is a non-blocking caller of the same marker, nobody has   *)
(* released, one holds the lock and all the others were turned away.       *)
C2_Witness ==
  \E d \in LockDirs : \E p \in Procs :
    /\ Group(d) = Procs
    /\ \A q \in Procs : ~self[q].wait
    /\ Holding(p)
    /\ \A q \in Procs \ { p } : Contended(q)

(***************************************************************************)
(* C3: a non-blocking __enter__ that runs while another handle of the same *)
(* path holds the lock raises ResourceLockedException in that very step,   *)
(* without sleeping, and leaves the marker and the holder as they were; a  *)
(* process that was turned away never reaches __exit__.                    *)
(***************************************************************************)
C3_Step(p, q) ==
  ( /\ pc[p] = "enter" /\ pc'[p] # "enter" /\ ~self[p].wait
    /\ p # q /\ Holding(q) /\ SamePath(p, q) )
  => /\ pc'[p] = "done" /\ raised'[p] = "ResourceLockedException"
     /\ dirs' = dirs /\ creator' = creator
     /\ self[q].lock_directory \in dirs'
     /\ pc'[q] = pc[q]

C3_TurnedAwayForGood(p) ==
  /\ pc[p] = "sleep" => self[p].wait
  /\ Contended(p) => (pc'[p] = "done" /\ ~self[p].wait)

C3_NonBlockingFailsAtOnce ==
  [][ \A p, q \in Procs : C3_Step(p, q) /\ C3_TurnedAwayForGood(p) ]_vars

(* A non-blocking caller was turned away while the holder, still in its    *)
(* protected section, has its marker.                                      *)
C3_Witness ==
  \E p, q \in Procs :
    /\ p # q /\ SamePath(p, q)
    /\ Contended(p) /\ ~self[p].wait
    /\ InBody(q) /\ creator[self[q].lock_directory] = q

(***************************************************************************)
(* C4: a blocking __enter__ never raises ResourceLockedException, returns  *)
(* only in a step in which its own makedirs() created the marker, never    *)
(* while another handle of the path holds the lock, and when every process *)
(* of a marker is done the marker is gone.                                 *)
(***************************************************************************)
C4_State ==
  /\ \A p \in Procs : self[p].wait => raised[p] # "ResourceLockedException"
  /\ \A d \in LockDirs : (\A p \in Group(d) : pc[p] = "done") => d \notin dirs

C4_Step(p) ==
  (self[p].wait /\ pc[p] # "body" /\ pc'[p] = "body")
  => /\ Acquires(p)
     /\ \A q \in Procs \ { p } : SamePath(p, q) => ~Holding(q)

C4_BlockingWaitsForRelease ==
  [] C4_State /\ [][ \A p \in Procs : C4_Step(p) ]_vars

(* A blocking caller sleeps between two attempts while the holder of the   *)
(* same path is about to remove the marker.                                *)
C4_Witness ==
  \E p, q \in Procs :
    /\ p # q /\ SamePath(p, q)
    /\ self[p].wait /\ pc[p] = "sleep"
    /\ pc[q] = "rmdir"

(***************************************************************************)
(* C5: the release runs however the protected section ends.  From the end  *)
(* of the section __exit__ goes on to os.rmdir, which removes the marker,  *)
(* also when the section raised; a process that is done after a failure of *)
(* its section holds no marker it created, and the failure is still the    *)
(* exception it ends with.                                                 *)
(***************************************************************************)
C5_State ==
  \A p \in Procs :
    /\ Holding(p) =>
         ( /\ self[p].lock_directory \in dirs
           /\ creator[self[p].lock_directory] = p )
    /\ Released(p) =>
         ~( /\ self[p].lock_directory \in dirs
            /\ creator[self[p].lock_directory] = p )

C5_Step(p) ==
  /\ (pc[p] = "exit" /\ pc'[p] # "exit") => pc'[p] = "rmdir"
  /\ (pc[p] = "rmdir" /\ pc'[p] # "rmdir") => Releases(p)
  /\ raised[p] = "BodyError" => raised'[p] = "BodyError"

C5_ReleaseOnEveryExitPath ==
  [] C5_State /\ [][ \A p \in Procs : C5_Step(p) ]_vars

(* A process whose protected section raised is done, the failure is what   *)
(* it ended with, and the marker it had created is gone.                   *)
C5_Witness ==
  \E p \in Procs :
    /\ pc[p] = "done" /\ raised[p] = "BodyError"
    /\ self[p].lock_directory \notin dirs

(***************************************************************************)
(* C6: acquire and release are a round trip on the marker.  A successful   *)
(* acquire finds the marker absent and makes it present, the release makes *)
(* it absent again, a marker exists only while some handle of it holds the *)
(* lock, and an attempt that finds no marker succeeds at once.             *)
(***************************************************************************)
C6_State ==
  \A d \in LockDirs : d \in dirs <=> \E p \in Group(d) : Holding(p)

C6_Step(p) ==
  /\ (pc[p] = "enter" /\ pc'[p] = "body") => Acquires(p)
  /\ (Holding(p) /\ pc'[p] = "done") => Releases(p)
  /\ ( /\ pc[p] = "enter" /\ pc'[p] # "enter"
       /\ self[p].lock_directory \notin dirs ) => pc'[p] = "body"

C6_AcquireReleaseRoundTrip ==
  [] C6_State /\ [][ \A p \in Procs : C6_Step(p) ]_vars

(* After one handle acquired and released, a non-blocking handle of        *)
(* another process for the same path holds the lock: its one attempt       *)
(* succeeded.                                                              *)
C6_Witness ==
  \E p, q \in Procs :
    /\ p # q /\ SamePath(p, q)
    /\ Released(q) /\ raised[q] = NoException
    /\ ~self[p].wait /\ InBody(p)
    /\ dirs = { self[p].lock_directory }

(***************************************************************************)
(* C7: __exit__ never raises because the marker is absent, at whatever     *)
(* point of the release something else removes the marker.                 *)
(***************************************************************************)
C7_ReleaseNeverRaises ==
  \A p \in Procs : raised[p] # "OSError"

(***************************************************************************)
(* C8: handles for the same file, also when made from different spellings  *)
(* of its path, have the same lock_directory and contend: they never hold  *)
(* the lock together, and while one holds it an attempt of a non-blocking  *)
(* one raises and an attempt of a blocking one goes to sleep.              *)
(***************************************************************************)
C8_State ==
  \A p, q \in Procs :
    SameTarget(p, q) =>
      /\ Constructed(p) /\ Constructed(q)
      /\ self[p].pathname = self[q].pathname
      /\ self[p].lock_directory = self[q].lock_directory
      /\ p # q => ~(Holding(p) /\ Holding(q))

C8_Step(p, q) ==
  ( /\ pc[p] = "enter" /\ pc'[p] # "enter"
    /\ p # q /\ Holding(q) /\ SameTarget(p, q) )
  => IF self[p].wait THEN pc'[p] = "sleep" /\ raised'[p] = NoException
     ELSE pc'[p] = "done" /\ raised'[p] = "ResourceLockedException"

C8_SamePathSameMarker ==
  [] C8_State /\ [][ \A p, q \in Procs : C8_Step(p, q) ]_vars

(* A handle made from /repo holds the lock and a blocking handle made from *)
(* /link/. sleeps between two attempts.                                    *)
C8_Witness ==
  \E p, q \in Procs :
    /\ arg[q] = <<"repo">> /\ Holding(q)
    /\ arg[p] = <<"link", ".">> /\ pc[p] = "sleep"

(***************************************************************************)
(* C9: no false contention.  Handles for different files have different    *)
(* lock_directory values; an attempt waits or raises only while a handle   *)
(* of the same file holds the lock, and a release removes no marker but    *)
(* its own.                                                                *)
(***************************************************************************)
C9_State ==
  \A p, q \in Procs :
    (Constructed(p) /\ Constructed(q) /\ ~SamePath(p, q))
    => self[p].lock_directory # self[q].lock_directory

C9_Step(p) ==
  /\ (pc[p] = "enter" /\ pc'[p] \in { "sleep", "done" })
     => \E q \in Procs \ { p } : SamePath(p, q) /\ Holding(q)
  /\ (pc[p] = "rmdir" /\ pc'[p] = "done")
     => \A q \in Procs :
          (Holding(q) /\ ~SamePath(p, q)) => self[q].lock_directory \in dirs'

C9_NoFalseContention ==
  [] C9_State /\ [][ \A p \in Procs : C9_Step(p) ]_vars

(* Two handles for different files hold their locks at the same time, both *)
(* markers exist, and a third process has released one of them before.     *)
C9_Witness ==
  \E p, q, r \in Procs :
    /\ Constructed(p) /\ Constructed(q) /\ ~SamePath(p, q)
    /\ InBody(p) /\ InBody(q)
    /\ Released(r)
    /\ dirs = { self[p].lock_directory, self[q].lock_directory }

C10_State ==
  \A p \in Procs :
    Named(p) =>
      /\ self[p] # NoHandle /\ raised[p] # "ResolveError"
      /\ ~exists(arg[p]) => self[p].pathname = arg[p]
      /\ exists(arg[p]) => self[p].pathname \in Files \ DOMAIN Symlinks

C10_Step(p) ==
  (pc[p] = "enter" /\ self[p].lock_directory \notin dirs /\ pc'[p] # "enter")
  => Acquires(p)

C11_State ==
  \A p \in Procs :
    raised[p] = "OSError" =>
      /\ pc[p] = "done"
      /\ ~( /\ self[p].lock_directory \in dirs
            /\ creator[self[p].lock_directory] = p )

C11_Step(p) ==
  /\ (pc[p] = "enter" /\ pc'[p] = "sleep")
     => (self[p].wait /\ self[p].lock_directory \in dirs)
  /\ (raised[p] # "OSError" /\ raised'[p] = "OSError")
     => /\ pc[p] = "enter" /\ pc'[p] = "done"
        /\ dirs' = dirs /\ creator' = creator
  /\ raised[p] = "OSError" => (pc'[p] = "done" /\ raised'[p] = "OSError")

C11_OnlyContentionIsRetried ==
  [] C11_State /\ [][ \A p \in Procs : C11_Step(p) ]_vars

(* A blocking and a non-blocking acquisition both ended with the OSError   *)
(* of os.makedirs(), and no marker exists.                                 *)
C11_Witness ==
  \E p, q \in Procs :
    /\ self[p].wait /\ pc[p] = "done" /\ raised[p] = "OSError"
    /\ Constructed(q) /\ ~self[q].wait
    /\ pc[q] = "done" /\ raised[q] = "OSError"
    /\ dirs = { }

(***************************************************************************)
(* C12: makedirs() returns True exactly when the call created the          *)
(* directory, and False, leaving the filesystem as it was, exactly when    *)
(* the directory existed; it does not raise.  Of the calls made on a       *)
(* directory from the time it is absent until somebody removes it again,   *)
(* exactly one returned True and all the others False.                     *)
(***************************************************************************)
C12_Step(p) ==
  (pc[p] = "enter" /\ pc'[p] # "enter") =>
    /\ pc'[p] = "body" <=> self[p].lock_directory \notin dirs
    /\ pc'[p] = "body" => Acquires(p)
    /\ pc'[p] # "body" =>
         /\ pc'[p] = "sleep" \/ Contended(p)'
         /\ dirs' = dirs /\ creator' = creator
    /\ raised'[p] # "OSError"

C12_State ==
  \A d \in LockDirs :
    LET called == { p \in Group(d) : pc[p] # "enter" }
        gotTrue == { p \in called : Succeeded(p) }
    IN  (called # { } /\ \A p \in called : ~Released(p)) =>
          /\ Cardinality(gotTrue) = 1
          /\ \A p \in called \ gotTrue : pc[p] = "sleep" \/ Contended(p)

C12_MakedirsTrueIffCreated ==
  [] C12_State /\ [][ \A p \in Procs : C12_Step(p) ]_vars

(* Every process has called makedirs() on the same directory and nobody    *)
(* has removed it: one call returned True, one False to a blocking and one *)
(* False to a non-blocking caller.                                         *)
C12_Witness ==
  \E d \in LockDirs : \E p, q, r \in Procs :
    /\ Group(d) = Procs /\ d \in dirs
    /\ pc[p] = "body" /\ creator[d] = p
    /\ pc[q] = "sleep" /\ Contended(r)
    /\ \A x \in Procs \ { p, q, r } : pc[x] = "sleep" \/ Contended(x)

(***************************************************************************)
(* C13: marker and holder correspond.  Under scoped use a marker exists if *)
(* and only if exactly one handle of it is between the return of its       *)
(* __enter__ and the end of its __exit__, and that handle is the one whose *)
(* makedirs() created the marker.                                          *)
(***************************************************************************)
C13_MarkerIffOneHolder ==
  \A d \in LockDirs :
    LET holders == { p \in Group(d) : Holding(p) }
    IN  /\ d \in dirs => ( /\ Cardinality(holders) = 1
                           /\ d \in DOMAIN creator
                           /\ creator[d] \in holders )
        /\ d \notin dirs => holders = { }
        /\ DOMAIN creator = dirs

(* Two markers exist, each with the handle that created it about to remove *)
(* it, while another process waits for one of them.                        *)
C13_Witness ==
  \E p, q, r \in Procs :
    /\ pc[p] = "rmdir" /\ pc[q] = "exit" /\ pc[r] = "sleep"
    /\ self[p].lock_directory # self[q].lock_directory
    /\ creator[self[p].lock_directory] = p
    /\ creator[self[q].lock_directory] = q
    /\ dirs = { self[p].lock_directory, self[q].lock_directory }

(***************************************************************************)
(* C15: __exit__ looks only at whether the marker exists, not at who made  *)
(* it.  Called on any handle of the path it goes on to os.rmdir exactly    *)
(* when the marker exists, and its os.rmdir removes the marker also when   *)
(* another handle created it and is still in its protected section, which  *)
(* that handle then stays in.                                              *)
(***************************************************************************)
C15_Step(p) ==
  /\ (pc[p] = "exit" /\ pc'[p] # "exit")
     => (pc'[p] = "rmdir" <=> self[p].lock_directory \in dirs)
  /\ ( /\ pc[p] = "rmdir" /\ pc'[p] = "done"
       /\ self[p].lock_directory \in dirs )
     => /\ self[p].lock_directory \notin dirs'
        /\ raised'[p] = raised[p]
        /\ \A q \in Procs \ { p } : pc'[q] = pc[q]

C15_ReleaseIgnoresOwner ==
  [][ \A p \in Procs : C15_Step(p) ]_vars

(* A handle that never entered has released; the handle that had created   *)
(* the marker is still in its protected section, and so is a third one,    *)
(* which created the marker anew.                                          *)
C15_Witness ==
  \E p, q, r \in Procs :
    /\ p # q /\ q # r /\ p # r
    /\ SamePath(p, q) /\ SamePath(q, r)
    /\ pc[p] = "done" /\ raised[p] = NoException
    /\ InBody(q) /\ InBody(r)
    /\ creator[self[r].lock_directory] = r

(***************************************************************************)
(* C16: __enter__ never removes or takes over a marker that exists: an     *)
(* attempt that finds the marker leaves it and its creator as they are and *)
(* does not return, and a marker disappears only in the os.rmdir of a      *)
(* release.  So once a holder has stopped without releasing, its marker    *)
(* stays, no other handle of the path holds the lock again, every attempt  *)
(* of a blocking handle ends in sleep and every attempt of a non-blocking  *)
(* one in ResourceLockedException.                                         *)
(***************************************************************************)
Stopped(p) == pc[p] = "stopped"

C16_State ==
  \A q \in Procs :
    Stopped(q) =>
      /\ self[q].lock_directory \in dirs
      /\ creator[self[q].lock_directory] = q
      /\ \A p \in Procs \ { q } : SamePath(p, q) => ~Holding(p)

C16_Step(p) ==
  /\ ( /\ pc[p] = "enter" /\ pc'[p] # "enter"
       /\ self[p].lock_directory \in dirs )
     => /\ dirs' = dirs /\ creator' = creator
        /\ IF self[p].wait THEN pc'[p] = "sleep" ELSE Contended(p)'
  /\ ( /\ pc[p] = "enter" /\ pc'[p] # "enter"
       /\ \E q \in Procs \ { p } : Stopped(q) /\ SamePath(p, q) )
     => pc'[p] # "body"
  /\ Stopped(p) => Stopped(p)'

C16_Removal ==
  \A d \in dirs :
    d \notin dirs' =>
      \E q \in Group(d) : pc[q] = "rmdir" /\ pc'[q] = "done"

C16_MarkerOutlivesStoppedHolder ==
  [] C16_State /\ [][ C16_Removal /\ \A p \in Procs : C16_Step(p) ]_vars

(* The holder has stopped; its marker is there, a blocking handle of the   *)
(* path sleeps between attempts and a non-blocking one was turned away.    *)
C16_Witness ==
  \E p, q, r \in Procs :
    /\ Stopped(q) /\ self[q].lock_directory \in dirs
    /\ SamePath(p, q) /\ pc[p] = "sleep"
    /\ SamePath(r, q) /\ Contended(r)

(***************************************************************************)
(* C18: the lock is not reentrant.  A second __enter__ on the path by the  *)
(* process that holds it finds the marker like anybody else: it never      *)
(* returns, a blocking one stays in its loop for ever, a non-blocking one  *)
(* raises ResourceLockedException in its first turn, and through all of it *)
(* the marker exists and is the one the process created.                   *)
(***************************************************************************)
InNested(p) == pc[p] \in { "nested_enter", "nested_sleep", "nested_body" }

C18_State ==
  \A p \in Procs :
    /\ pc[p] # "nested_body"
    /\ InNested(p) =>
         /\ self[p].lock_directory \in dirs
         /\ creator[self[p].lock_directory] = p
         /\ \A q \in Procs \ { p } : SamePath(p, q) => ~Holding(q)

C18_Step(p) ==
  /\ InNested(p) => InNested(p)'
  /\ (pc[p] = "body" /\ (InNested(p)' \/ raised'[p] = "ResourceLockedException"))
     => /\ dirs' = dirs /\ creator' = creator
        /\ self[p].lock_directory \in dirs'
        /\ creator'[self[p].lock_directory] = p
        /\ raised'[p] = "ResourceLockedException" => pc'[p] = "exit"
        /\ InNested(p)' => pc'[p] = "nested_sleep"

C18_NotReentrant ==
  [] C18_State /\ [][ \A p \in Procs : C18_Step(p) ]_vars

(* One process is stuck in the loop of its second, blocking __enter__ and  *)
(* another is out of its protected section with the                        *)
(* ResourceLockedException of its second, non-blocking __enter__.          *)
C18_Witness ==
  \E p, q \in Procs :
    /\ pc[p] = "nested_sleep"
    /\ self[p].lock_directory \in dirs
    /\ pc[q] = "done" /\ raised[q] = "ResourceLockedException"
    /\ self[q].wait

(***************************************************************************)
(* C14.  Blocking acquisition makes progress.  Under weak fairness of each *)
(* process's steps (so that a holder ends its body and releases), a        *)
(* process that polls with wait=True comes to hold the lock unless another *)
(* process contends for the same marker; and while it polls it goes        *)
(* nowhere but to the sleep, to the next poll or into the body: it never   *)
(* raises and never ends without the lock.                                 *)
(***************************************************************************)

(* p is in the loop of a blocking __enter__. *)
Polling(p) == pc[p] \in { "enter", "sleep" } /\ self[p].wait

(* Another process is in __enter__ for the marker of p. *)
Rival(p) ==
  \E q \in Procs \ { p } :
    /\ pc[q] \in { "enter", "sleep" }
    /\ self[q].lock_directory = self[p].lock_directory

C14_Progress == \A p \in Procs : Polling(p) ~> (InBody(p) \/ Rival(p))

C14_Step ==
  \A p \in Procs :
    Polling(p) =>
      /\ pc'[p] \in { "enter", "sleep", "body" }
      /\ raised'[p] = NoException
      /\ pc'[p] = "body" => Acquires(p)
      /\ (pc[p] = "enter" /\ self[p].lock_directory \in dirs) =>
           pc'[p] \in { "enter", "sleep" }

C14_BlockingMakesProgress == C14_Progress /\ [][C14_Step]_vars

(* A blocking process found the marker present and sleeps before its next  *)
(* poll, while the process that made the marker is in its body.            *)
C14_Witness ==
  \E p \in Procs, q \in Procs :
    /\ pc[p] = "sleep" /\ self[p].wait
    /\ InBody(q) /\ creator[self[p].lock_directory] = q

(***************************************************************************)
(* C17.  No ordering among waiters.  Whenever the marker is absent, every  *)
(* process that is about to poll can create it and enter its body, however *)
(* many processes began to wait before it, and a poll that finds the       *)
(* marker absent does create it: __enter__ takes no account of the order   *)
(* of arrival.  So of two waiters either may acquire first, and a waiter   *)
(* can be passed over by later arrivals time after time.                   *)
(***************************************************************************)

(* The place of p in order; 0 when p is not in it. *)
Place(p) ==
  IF Waited(p) THEN CHOOSE i \in 1..Len(order) : order[i] = p ELSE 0

(* p began to wait before q did. *)
WaitedBefore(p, q) == Waited(p) /\ Waited(q) /\ Place(p) < Place(q)

C17_State ==
  \A p \in Procs :
    (pc[p] = "enter" /\ self[p].lock_directory \notin dirs) =>
      ENABLED (EnterInOrder(p) /\ pc'[p] = "body")

C17_Step ==
  \A p \in Procs :
    (pc[p] = "enter" /\ pc'[p] # "enter"
       /\ self[p].lock_directory \notin dirs) =>
      /\ Acquires(p)
      /\ order' = order

C17_NoOrderAmongWaiters == []C17_State /\ [][C17_Step]_vars

(* The first of two waiters is the one in its body. *)
C17_FirstWaiterFirst ==
  \E w1 \in Procs, w2 \in Procs :
    /\ WaitedBefore(w1, w2)
    /\ self[w1].wait /\ self[w2].wait
    /\ InBody(w1) /\ Polling(w2)

(* The second of two waiters is in its body and the first still polls. *)
C17_SecondWaiterFirst ==
  \E w1 \in Procs, w2 \in Procs :
    /\ WaitedBefore(w1, w2)
    /\ self[w1].wait /\ self[w2].wait
    /\ InBody(w2) /\ Polling(w1)

(* A waiter still polls though two processes that began to wait after it   *)
(* have acquired one after the other: the first has released, the second   *)
(* is in its body.                                                         *)
C17_Witness ==
  \E w1 \in Procs, w2 \in Procs, w3 \in Procs :
    /\ WaitedBefore(w1, w2) /\ WaitedBefore(w2, w3)
    /\ self[w1].wait /\ self[w2].wait /\ self[w3].wait
    /\ Polling(w1)
    /\ pc[w2] = "done" /\ raised[w2] \in { NoException, "BodyError" }
    /\ InBody(w3) /\ creator[self[w3].lock_directory] = w3

(* Every polling process comes to hold the lock: what a queue of waiters   *)
(* would give.  The loop of __enter__ does not, even under Fair.           *)
C17_NoStarvation == \A p \in Procs : Polling(p) ~> InBody(p)

(***************************************************************************)
(* C19.  OrderedObject yields a total order derived from the key: for any  *)
(* two instances a and b, of the same subclass or of different ones,       *)
(* exactly one of a < b, a == b, b < a holds, and a == b holds exactly     *)
(* when the keys are equal.                                                *)
(***************************************************************************)

(* How many of a < b, a == b, b < a came out true. *)
Holds ==
  (IF cmp.lt THEN 1 ELSE 0) + (IF cmp.eq THEN 1 ELSE 0)
    + (IF cmp.gt THEN 1 ELSE 0)

C19_TotalOrderFromKey ==
  cmp.done =>
    /\ Holds = 1
    /\ cmp.eq <=> (_key(a) = _key(b))

(* What the code does give: for two instances of one class the claim; for  *)
(* instances of different classes the order of the keys, and with equal    *)
(* keys none of the three.                                                 *)
C19_AsCoded ==
  cmp.done =>
    /\ cmp.lt <=> (_key(a) < _key(b))
    /\ cmp.gt <=> (_key(b) < _key(a))
    /\ cmp.eq <=> (type(a) = type(b) /\ _key(a) = _key(b))
    /\ type(a) = type(b) => (Holds = 1 /\ (cmp.eq <=> _key(a) = _key(b)))
    /\ (type(a) # type(b) /\ _key(a) = _key(b)) => Holds = 0

(* Two instances of different subclasses with equal keys were compared. *)
C19_Witness ==
  /\ cmp.done
  /\ type(a) # type(b) /\ _key(a) = _key(b)

====
